---- MODULE Spec2Model ----
(***************************************************************************)
(* Model of HW1/q1.py (Watts-Strogatz generator, clustering coefficient)   *)
(* and HW1/q2.py (degree, betweenness and closeness centrality).           *)
(*                                                                         *)
(* A networkx.Graph is modelled by what the code observes of it: the node  *)
(* list in insertion order and, per node, the neighbour list in insertion  *)
(* order (networkx keeps both in dicts, which iterate in insertion order). *)
(* Probabilities are scaled integers: p stands for p / PScale, and a value *)
(* r of random.random() stands for r / PScale with r in 0..PScale-1, i.e.  *)
(* the half-open interval [0, 1).  Real-valued scores are exact rationals  *)
(* <<num, den>> in lowest terms.                                           *)
(***************************************************************************)
EXTENDS Integers, Sequences, FiniteSets, TLC

VARIABLES n, k, p, pc, G, i, j, edges, idx, log, err, cc,
          normalized, fn, result, all_shortest_paths

vars == <<n, k, p, pc, G, i, j, edges, idx, log, err, cc,
          normalized, fn, result, all_shortest_paths>>

\* ---------------------------------------------------------------- bounds
\* Largest n given to the generator (besides the n = 10 regression input).
MaxN == 5
\* Largest node count of the graphs given to the centrality functions
\* (besides the 5-node path graph and the 5-node graphs of two components).
MaxNodes == 4
\* Resolution of the probability scale: p and random.random() are multiples
\* of 1 / PScale.
PScale == 2

\* ---------------------------------------------------------------- helpers
InSeq(s, x) == \E a \in 1..Len(s) : s[a] = x

Range(s) == {s[a] : a \in 1..Len(s)}

Without(s, x) == SelectSeq(s, LAMBDA y : y # x)

RECURSIVE Gcd(_, _)
Gcd(a, b) == IF b = 0 THEN a ELSE Gcd(b, a % b)

\* The rational a / b (b > 0, a >= 0) in lowest terms.
Rat(a, b) == LET g == Gcd(a, b) IN <<a \div g, b \div g>>

RatAdd(x, y) == Rat(x[1] * y[2] + y[1] * x[2], x[2] * y[2])

\* ---------------------------------------------------------------- graph
\* The local G before "G = nx.Graph()" has run: no graph object.
None == [none |-> TRUE]

\* nx.Graph(): the empty graph.
Graph == [nodes |-> <<>>, adj |-> <<>>]

add_node(g, v) ==
    IF v \in DOMAIN g.adj THEN g
    ELSE [nodes |-> Append(g.nodes, v),
          adj   |-> [u \in DOMAIN g.adj \cup {v} |->
                        IF u = v THEN <<>> ELSE g.adj[u]]]

has_edge(g, u, v) == u \in DOMAIN g.adj /\ InSeq(g.adj[u], v)

add_edge(g, u, v) ==
    LET g1 == add_node(add_node(g, u), v)
        a1 == [g1.adj EXCEPT ![u] = IF InSeq(@, v) THEN @ ELSE Append(@, v)]
        a2 == [a1 EXCEPT ![v] = IF InSeq(@, u) THEN @ ELSE Append(@, u)]
    IN  [g1 EXCEPT !.adj = a2]

remove_edge(g, u, v) ==
    [g EXCEPT !.adj = [[g.adj EXCEPT ![u] = Without(@, v)]
                            EXCEPT ![v] = Without(@, u)]]

neighbors(g, v) == g.adj[v]

\* Mutant: only the neighbours with a larger identifier are counted.
degree_forward(g, v) == Cardinality({w \in Range(g.adj[v]) : w > v})

degree(g, v) == Len(g.adj[v]) + (IF InSeq(g.adj[v], v) THEN 1 ELSE 0)

\* list(G.edges()): nodes in insertion order, each with the neighbours not
\* yet seen as a first endpoint.
RECURSIVE EdgesFrom(_, _, _)
EdgesFrom(g, a, seen) ==
    IF a > Len(g.nodes) THEN <<>>
    ELSE LET v    == g.nodes[a]
             nbrs == SelectSeq(g.adj[v], LAMBDA w : w \notin seen)
         IN  [b \in 1..Len(nbrs) |-> <<v, nbrs[b]>>]
                 \o EdgesFrom(g, a + 1, seen \cup {v})

EdgeList(g) == EdgesFrom(g, 1, {})

\* The edges as a set of unordered pairs.
EdgeSet(g) ==
    UNION {{{u, g.adj[u][b]} : b \in 1..Len(g.adj[u])} : u \in DOMAIN g.adj}

\* ---------------------------------------------------------------- q1.py
\* possible_targets of the rewiring step, in range(n) order.
RECURSIVE TargetsFrom(_, _, _, _)
TargetsFrom(g, src, node, cnt) ==
    IF node >= cnt THEN <<>>
    ELSE IF node = src \/ has_edge(g, src, node)
         THEN TargetsFrom(g, src, node + 1, cnt)
         ELSE <<node>> \o TargetsFrom(g, src, node + 1, cnt)

\* Mutant: nodes already adjacent to src stay among the candidates.
possible_targets_keeps_adjacent(g, src, cnt) ==
    SelectSeq([x \in 1..cnt |-> x - 1], LAMBDA node : node # src)

\* Mutant: src itself stays among the candidates.
possible_targets_keeps_self(g, src, cnt) ==
    SelectSeq([x \in 1..cnt |-> x - 1], LAMBDA node : ~has_edge(g, src, node))

possible_targets(g, src, cnt) == TargetsFrom(g, src, 0, cnt)

\* Mutant: the guard skips the edges listed from their smaller endpoint.
SkipEdge_inverted(e) == e[1] < e[2]

\* The guard that skips an edge listed from its larger endpoint.
SkipEdge(e) == e[1] > e[2]

\* Mutant: random.random() <= p.
RewireHit_le(r, prob) == r <= prob

\* random.random() < p, for the draw r.
RewireHit(r, prob) == r < prob

\* Mutant: k = n passes the validation.
ValidationError_gt(nn, kk, pp) ==
    IF kk % 2 # 0 THEN "k must be even"
    ELSE IF kk > nn THEN "k must be less than n"
    ELSE IF ~(0 <= pp /\ pp <= PScale) THEN "p must be between 0 and 1"
    ELSE ""

\* Input validation: the message of the ValueError raised, "" if none.
ValidationError(nn, kk, pp) ==
    IF kk % 2 # 0 THEN "k must be even"
    ELSE IF kk >= nn THEN "k must be less than n"
    ELSE IF ~(0 <= pp /\ pp <= PScale) THEN "p must be between 0 and 1"
    ELSE ""

\* The two add_edge calls of one (i, j) iteration of the lattice loops.
LatticeEdges(g, a, b, nn) ==
    add_edge(add_edge(g, a, (a + b) % nn), a, (a - b) % nn)

Validate ==
    /\ pc = "validate"
    /\ IF ValidationError(n, k, p) # ""
       THEN /\ err' = ValidationError(n, k, p)
            /\ pc' = "raised"
            /\ UNCHANGED G
       ELSE /\ G' = Graph
            /\ pc' = "add_nodes"
            /\ UNCHANGED err
    /\ UNCHANGED <<n, k, p, i, j, edges, idx, log, cc,
                   normalized, fn, result, all_shortest_paths>>

\* for i in range(n): G.add_node(i)
AddNode ==
    /\ pc = "add_nodes"
    /\ i < n
    /\ G' = add_node(G, i)
    /\ i' = i + 1
    /\ UNCHANGED <<n, k, p, pc, j, edges, idx, log, err, cc,
                   normalized, fn, result, all_shortest_paths>>

AddNodesDone ==
    /\ pc = "add_nodes"
    /\ i >= n
    /\ pc' = "lattice"
    /\ i' = 0
    /\ j' = 1
    /\ UNCHANGED <<n, k, p, G, edges, idx, log, err, cc,
                   normalized, fn, result, all_shortest_paths>>

\* One iteration of the inner loop "for j in range(1, k // 2 + 1)".
LatticeStep ==
    /\ pc = "lattice"
    /\ i < n
    /\ j <= k \div 2
    /\ G' = LatticeEdges(G, i, j, n)
    /\ IF j + 1 <= k \div 2
       THEN j' = j + 1 /\ UNCHANGED i
       ELSE j' = 1 /\ i' = i + 1
    /\ UNCHANGED <<n, k, p, pc, edges, idx, log, err, cc,
                   normalized, fn, result, all_shortest_paths>>

\* Both loops are exhausted: edges = list(G.edges()).
LatticeDone ==
    /\ pc = "lattice"
    /\ (i >= n \/ k \div 2 < 1)
    /\ edges' = EdgeList(G)
    /\ idx' = 1
    /\ pc' = "rewire"
    /\ UNCHANGED <<n, k, p, G, i, j, log, err, cc,
                   normalized, fn, result, all_shortest_paths>>

\* One iteration of "for edge in edges".  The log records what the
\* iteration did: the edge, the random draws in the order they were made,
\* the outcome of the probability check, the number of candidate targets
\* and the chosen target (-1 if none).
RewireStep ==
    /\ pc = "rewire"
    /\ idx <= Len(edges)
    /\ LET e == edges[idx] IN
       /\ i' = e[1]
       /\ j' = e[2]
       /\ idx' = idx + 1
       /\ IF SkipEdge(e)
          THEN /\ log' = Append(log, [edge |-> e, draws |-> <<>>,
                                      hit |-> FALSE, ncand |-> 0, target |-> -1])
               /\ UNCHANGED <<G, pc, err>>
          ELSE \E r \in 0..PScale - 1 :
               IF RewireHit(r, p)
               THEN LET cand == possible_targets(G, e[1], n) IN
                    IF Len(cand) > 0
                    THEN \E c \in 1..Len(cand) :
                         /\ log' = Append(log,
                                [edge |-> e, draws |-> <<"random", "choice">>,
                                 hit |-> TRUE, ncand |-> Len(cand),
                                 target |-> cand[c]])
                         /\ IF has_edge(G, e[1], e[2])
                            THEN /\ G' = add_edge(remove_edge(G, e[1], e[2]),
                                                  e[1], cand[c])
                                 /\ UNCHANGED <<pc, err>>
                            ELSE /\ err' = "NetworkXError"
                                 /\ pc' = "raised"
                                 /\ UNCHANGED G
                    ELSE /\ log' = Append(log,
                                [edge |-> e, draws |-> <<"random">>,
                                 hit |-> TRUE, ncand |-> 0, target |-> -1])
                         /\ UNCHANGED <<G, pc, err>>
               ELSE /\ log' = Append(log,
                                [edge |-> e, draws |-> <<"random">>,
                                 hit |-> FALSE, ncand |-> 0, target |-> -1])
                    /\ UNCHANGED <<G, pc, err>>
    /\ UNCHANGED <<n, k, p, edges, cc,
                   normalized, fn, result, all_shortest_paths>>

\* return G
Return ==
    /\ pc = "rewire"
    /\ idx > Len(edges)
    /\ pc' = "returned"
    /\ UNCHANGED <<n, k, p, G, i, j, edges, idx, log, err, cc,
                   normalized, fn, result, all_shortest_paths>>
\* Number of adjacent pairs nbrs[a], nbrs[b] with a < b, counted as the
\* nested loops of compute_clustering_coefficient count them.
RECURSIVE CountPairs(_, _, _, _)
CountPairs(g, nbrs, a, b) ==
    IF a > Len(nbrs) THEN 0
    ELSE IF b > Len(nbrs) THEN CountPairs(g, nbrs, a + 1, a + 2)
    ELSE (IF has_edge(g, nbrs[a], nbrs[b]) THEN 1 ELSE 0)
             + CountPairs(g, nbrs, a, b + 1)

edges_between_neighbors(g, v) == CountPairs(g, neighbors(g, v), 1, 2)

\* Mutant: the number of possible pairs is not halved.
node_clustering_no_half(g, v) ==
    LET kv == Len(neighbors(g, v)) IN
    IF kv < 2 THEN Rat(0, 1)
    ELSE Rat(edges_between_neighbors(g, v), kv * (kv - 1))

\* The clustering coefficient of one node.
node_clustering(g, v) ==
    LET kv == Len(neighbors(g, v)) IN
    IF kv < 2 THEN Rat(0, 1)
    ELSE Rat(edges_between_neighbors(g, v), (kv * (kv - 1)) \div 2)

RECURSIVE TotalClustering(_, _)
TotalClustering(g, a) ==
    IF a > Len(g.nodes) THEN Rat(0, 1)
    ELSE RatAdd(node_clustering(g, g.nodes[a]), TotalClustering(g, a + 1))

compute_clustering_coefficient(g) ==
    IF Len(g.nodes) > 0
    THEN LET total == TotalClustering(g, 1)
         IN  Rat(total[1], total[2] * Len(g.nodes))
    ELSE Rat(0, 1)

\* The caller hands the generated graph to compute_clustering_coefficient.
Clustering ==
    /\ pc = "returned"
    /\ cc' = compute_clustering_coefficient(G)
    /\ pc' = "clustered"
    /\ UNCHANGED <<n, k, p, G, i, j, edges, idx, log, err,
                   normalized, fn, result, all_shortest_paths>>

\* ---------------------------------------------------------------- q2.py
\* A dict with one more (or one overwritten) entry.
DictSet(d, key, val) ==
    [x \in DOMAIN d \cup {key} |-> IF x = key THEN val ELSE d[x]]

\* degree / (N - 1) divides by zero exactly when the graph has one node.
degree_centrality_raises(g, norm) == norm /\ Len(g.nodes) = 1

\* The score compute_degree_centrality stores for one node.
degree_score(g, v, norm) ==
    IF norm THEN Rat(degree(g, v), Len(g.nodes) - 1)
    ELSE Rat(degree(g, v), 1)

RECURSIVE DegreeLoop(_, _, _, _)
DegreeLoop(g, a, norm, res) ==
    IF a > Len(g.nodes) THEN res
    ELSE DegreeLoop(g, a + 1, norm,
                    DictSet(res, g.nodes[a], degree_score(g, g.nodes[a], norm)))

compute_degree_centrality(g, norm) == DegreeLoop(g, 1, norm, <<>>)

\* networkx's breadth-first search of single_source_shortest_path: the
\* nodes of the current level in discovery order, each with its neighbours
\* in adjacency order; the first discoverer of w fixes the path to w.
RECURSIVE ScanLevel(_, _, _, _, _, _)
ScanLevel(g, thislevel, a, b, paths, nextlevel) ==
    IF a > Len(thislevel) THEN [paths |-> paths, nextlevel |-> nextlevel]
    ELSE LET v == thislevel[a] IN
         IF b > Len(g.adj[v])
         THEN ScanLevel(g, thislevel, a + 1, 1, paths, nextlevel)
         ELSE LET w == g.adj[v][b] IN
              IF w \in DOMAIN paths
              THEN ScanLevel(g, thislevel, a, b + 1, paths, nextlevel)
              ELSE ScanLevel(g, thislevel, a, b + 1,
                             DictSet(paths, w, Append(paths[v], w)),
                             Append(nextlevel, w))

RECURSIVE BfsPaths(_, _, _)
BfsPaths(g, level, paths) ==
    IF level = <<>> THEN paths
    ELSE LET r == ScanLevel(g, level, 1, 1, paths, <<>>)
         IN  BfsPaths(g, r.nextlevel, r.paths)

single_source_shortest_path(g, s) == BfsPaths(g, <<s>>, DictSet(<<>>, s, <<s>>))

\* dict(nx.all_pairs_shortest_path(graph))
all_pairs_shortest_path(g) ==
    [s \in Range(g.nodes) |-> single_source_shortest_path(g, s)]

\* Mutant: shortest_path[1:], the target is counted too.
Intermediate_keeps_target(path) == SubSeq(path, 2, Len(path))

\* shortest_path[1:-1]
Intermediate(path) == SubSeq(path, 2, Len(path) - 1)

\* One pass of "for intermediate_node in shortest_path[1:-1]".
CountPath(count, path) ==
    [v \in DOMAIN count |->
        count[v] + Cardinality({x \in 1..Len(Intermediate(path)) :
                                    Intermediate(path)[x] = v})]

\* The double loop over source_node and target_node.
RECURSIVE BetweennessLoop(_, _, _, _, _)
BetweennessLoop(g, asp, a, b, count) ==
    IF a > Len(g.nodes) THEN count
    ELSE IF b > Len(g.nodes) THEN BetweennessLoop(g, asp, a + 1, 1, count)
    ELSE LET s == g.nodes[a]
             t == g.nodes[b]
         IN  IF s # t /\ t \in DOMAIN asp[s]
             THEN BetweennessLoop(g, asp, a, b + 1, CountPath(count, asp[s][t]))
             ELSE BetweennessLoop(g, asp, a, b + 1, count)

\* The final scaling: count * 1.0 / ((n - 1) * (n - 2)) when normalized and
\* n > 2, the raw count otherwise.
betweenness_scale(count, nn, norm) ==
    IF norm /\ nn > 2
    THEN [v \in DOMAIN count |-> Rat(count[v], (nn - 1) * (nn - 2))]
    ELSE [v \in DOMAIN count |-> Rat(count[v], 1)]

compute_betweenness_centrality(g, asp, norm) ==
    betweenness_scale(
        BetweennessLoop(g, asp, 1, 1, [v \in Range(g.nodes) |-> 0]),
        Len(g.nodes), norm)

\* nx.shortest_path_length(graph, source, target): the hop distance, found
\* FALSE for NetworkXNoPath.
RECURSIVE Hops(_, _, _, _, _)
Hops(g, frontier, visited, d, t) ==
    IF t \in frontier THEN [found |-> TRUE, len |-> d]
    ELSE LET nxt == UNION {Range(g.adj[v]) : v \in frontier} \ visited IN
         IF nxt = {} THEN [found |-> FALSE, len |-> 0]
         ELSE Hops(g, nxt, visited \cup nxt, d + 1, t)

shortest_path_length(g, s, t) == Hops(g, {s}, {s}, 0, t)

\* Mutant: an unreachable target is skipped instead of adding infinity.
SumAdd_skips_unreachable(sum, sp) ==
    IF sp.found /\ ~sum.inf THEN [inf |-> FALSE, val |-> sum.val + sp.len]
    ELSE sum

\* path_length_sum is a number or float('inf').
SumAdd(sum, sp) ==
    IF sp.found /\ ~sum.inf THEN [inf |-> FALSE, val |-> sum.val + sp.len]
    ELSE [inf |-> TRUE, val |-> 0]

\* path_length_sum > 0 and path_length_sum != float('inf')
SumUsable(sum) == (sum.inf \/ sum.val > 0) /\ ~sum.inf

closeness_score(nn, sum, norm) ==
    IF norm THEN Rat(nn - 1, sum.val) ELSE Rat(1, sum.val)

\* The loop over target_node for one node; its body ends with the test of
\* path_length_sum and the store into the result dict.
RECURSIVE ClosenessTargets(_, _, _, _, _, _)
ClosenessTargets(g, node, b, sum, res, norm) ==
    IF b > Len(g.nodes) THEN res
    ELSE LET t    == g.nodes[b]
             sum1 == IF node # t
                     THEN SumAdd(sum, shortest_path_length(g, node, t))
                     ELSE sum
             res1 == IF SumUsable(sum1)
                     THEN DictSet(res, node,
                                  closeness_score(Len(g.nodes), sum1, norm))
                     ELSE res
         IN  ClosenessTargets(g, node, b + 1, sum1, res1, norm)

RECURSIVE ClosenessLoop(_, _, _, _)
ClosenessLoop(g, a, res, norm) ==
    IF a > Len(g.nodes) THEN res
    ELSE ClosenessLoop(g, a + 1,
            ClosenessTargets(g, g.nodes[a], 1, [inf |-> FALSE, val |-> 0],
                             res, norm),
            norm)

compute_closeness_centrality(g, norm) == ClosenessLoop(g, 1, <<>>, norm)

\* nx.erdos_renyi_graph(n, p, seed): nodes 0..nn-1, then the pairs (a, b),
\* a < b, in lexicographic order, each added when its draw succeeds (E is
\* the set of pairs whose draw succeeded).
RECURSIVE AddNodesFrom(_, _, _)
AddNodesFrom(g, a, nn) ==
    IF a >= nn THEN g ELSE AddNodesFrom(add_node(g, a), a + 1, nn)

RECURSIVE AddChosen(_, _, _, _, _)
AddChosen(g, a, b, nn, E) ==
    IF a >= nn THEN g
    ELSE IF b >= nn THEN AddChosen(g, a + 1, a + 2, nn, E)
    ELSE AddChosen(IF {a, b} \in E THEN add_edge(g, a, b) ELSE g,
                   a, b + 1, nn, E)

erdos_renyi_graph(nn, E) == AddChosen(AddNodesFrom(Graph, 0, nn), 0, 1, nn, E)

Pairs(nn) == {{a, b} : a \in 0..nn - 1, b \in 0..nn - 1} \ {{a} : a \in 0..nn - 1}

DegreeCentrality ==
    /\ pc = "call"
    /\ \E norm \in BOOLEAN :
       /\ normalized' = norm
       /\ IF degree_centrality_raises(G, norm)
          THEN /\ err' = "ZeroDivisionError"
               /\ pc' = "raised"
               /\ UNCHANGED result
          ELSE /\ result' = compute_degree_centrality(G, norm)
               /\ pc' = "done"
               /\ UNCHANGED err
    /\ fn' = "degree"
    /\ UNCHANGED <<n, k, p, G, i, j, edges, idx, log, cc, all_shortest_paths>>

BetweennessCentrality ==
    /\ pc = "call"
    /\ \E norm \in BOOLEAN :
       LET asp == all_pairs_shortest_path(G) IN
       /\ normalized' = norm
       /\ all_shortest_paths' = asp
       /\ result' = compute_betweenness_centrality(G, asp, norm)
    /\ pc' = "done"
    /\ fn' = "betweenness"
    /\ UNCHANGED <<n, k, p, G, i, j, edges, idx, log, err, cc>>

ClosenessCentrality ==
    /\ pc = "call"
    /\ \E norm \in BOOLEAN :
       /\ normalized' = norm
       /\ result' = compute_closeness_centrality(G, norm)
    /\ pc' = "done"
    /\ fn' = "closeness"
    /\ UNCHANGED <<n, k, p, G, i, j, edges, idx, log, err, cc,
                   all_shortest_paths>>

\* The graphs handed to the centrality functions, built as
\* nx.erdos_renyi_graph builds them: every simple graph on the nodes
\* 0..nn-1, nn <= MaxNodes; the path graph 0-1-2-3-4; and every graph on
\* 0..4 made of a connected component of 2 nodes and one of 3 nodes.
InitCentrality ==
    /\ \/ \E nn \in 0..MaxNodes : \E E \in SUBSET Pairs(nn) :
              G = erdos_renyi_graph(nn, E)
       \/ G = erdos_renyi_graph(5, {{0, 1}, {1, 2}, {2, 3}, {3, 4}})
       \/ \E A \in Pairs(5) :
              \E EB \in {X \in SUBSET (Pairs(5) \cap SUBSET ((0..4) \ A)) :
                            Cardinality(X) >= 2} :
                  G = erdos_renyi_graph(5, {A} \cup EB)
    /\ pc = "call"
    /\ n = 0
    /\ k = 0
    /\ p = 0
    /\ i = 0
    /\ j = 0
    /\ edges = <<>>
    /\ idx = 0
    /\ log = <<>>
    /\ err = ""
    /\ cc = Rat(0, 1)
    /\ normalized = FALSE
    /\ fn = ""
    /\ result = <<>>
    /\ all_shortest_paths = <<>>

NextCentrality ==
    \/ DegreeCentrality
    \/ BetweennessCentrality
    \/ ClosenessCentrality

SpecCentrality == InitCentrality /\ [][NextCentrality]_vars

\* ---------------------------------------------------------------- Spec
\* The arguments of watts_strogatz_model: every n in 1..MaxN with every k
\* from -2 to MaxN and every p from -1/PScale to 1 + 1/PScale (valid and
\* invalid ones), and the regression input n = 10, k = 4, p = 0.
Init ==
    /\ \/ /\ n \in 1..MaxN
          /\ k \in -2..MaxN
          /\ p \in -1..PScale + 1
       \/ /\ n = 10
          /\ k = 4
          /\ p = 0
    /\ pc = "validate"
    /\ G = None
    /\ i = 0
    /\ j = 0
    /\ edges = <<>>
    /\ idx = 0
    /\ log = <<>>
    /\ err = ""
    /\ cc = Rat(0, 1)
    /\ normalized = FALSE
    /\ fn = ""
    /\ result = <<>>
    /\ all_shortest_paths = <<>>

Next ==
    \/ Validate
    \/ AddNode
    \/ AddNodesDone
    \/ LatticeStep
    \/ LatticeDone
    \/ RewireStep
    \/ Return
    \/ Clustering

Spec == Init /\ [][Next]_vars

\* ---------------------------------------------------------------- claims
Finished == pc \in {"returned", "clustered"}

\* The generator's documented input domain.
ValidInput ==
    n >= 1 /\ k % 2 = 0 /\ 0 <= k /\ k < n /\ 0 <= p /\ p <= PScale

NodeSet(g) == Range(g.nodes)

NbrSet(g, v) == Range(g.adj[v])

RECURSIVE SumOver(_, _)
SumOver(f, S) ==
    IF S = {} THEN 0
    ELSE LET x == CHOOSE y \in S : TRUE IN f[x] + SumOver(f, S \ {x})

\* The ring lattice's edges: node a with its kk/2 forward neighbours.
RingEdges(nn, kk) == {{a, (a + b) % nn} : a \in 0..nn - 1, b \in 1..kk \div 2}

Rewired(entry) == entry.target # -1

LocalCoefficient(g, v) ==
    LET N == NbrSet(g, v)
        d == Cardinality(N)
    IN  IF d < 2 THEN Rat(0, 1)
        ELSE Rat(Cardinality({e \in EdgeSet(g) : e \subseteq N}),
                 (d * (d - 1)) \div 2)

RECURSIVE RatSumOver(_, _, _)
RatSumOver(g, S, acc) ==
    IF S = {} THEN acc
    ELSE LET x == CHOOSE y \in S : TRUE
         IN  RatSumOver(g, S \ {x}, RatAdd(acc, LocalCoefficient(g, x)))

NoCandidate_Witness ==
    /\ pc = "returned"
    /\ \E a \in 1..Len(log) : log[a].hit /\ log[a].ncand = 0

SimpleGraph(g) ==
    \A v \in DOMAIN g.adj :
        /\ v \in 0..n - 1
        /\ ~InSeq(g.adj[v], v)
        /\ Cardinality(NbrSet(g, v)) = Len(g.adj[v])
        /\ \A w \in NbrSet(g, v) : w \in DOMAIN g.adj /\ InSeq(g.adj[w], v)

\* What one iteration of the rewiring loop may do to the graph.
RewireSafe ==
    (pc = "rewire" /\ idx <= Len(edges)) =>
        LET a == edges[idx][1]
            b == edges[idx][2]
        IN  /\ pc' # "raised"
            /\ G' # G =>
                   /\ has_edge(G, a, b)
                   /\ \E t \in 0..n - 1 :
                          /\ t # a
                          /\ t # b
                          /\ ~has_edge(G, a, t)
                          /\ log'[Len(log')].target = t
                          /\ EdgeSet(G') = (EdgeSet(G) \ {{a, b}}) \cup {{a, t}}
            /\ Len(G.adj[a]) = n - 1 => G' = G

Called(name) == pc = "done" /\ fn = name

\* The nodes reachable from s (s included).
Component(g, s) == {t \in NodeSet(g) : shortest_path_length(g, s, t).found}

\* The sum of the hop distances from s to the nodes of T.
DistSum(g, s, T) ==
    SumOver([t \in T |-> shortest_path_length(g, s, t).len], T)

Score(g, total, norm) ==
    IF norm THEN Rat(Len(g.nodes) - 1, total) ELSE Rat(1, total)

\* C4: s is a key of the closeness result exactly when the sum D(s) of the
\* distances from s to all other nodes is finite and positive, and then its
\* score is (n-1)/D(s) if normalized and 1/D(s) otherwise, D(s) being the
\* complete sum.
C4_ClosenessCompleteSum ==
    Called("closeness") =>
        \A s \in NodeSet(G) :
            LET D == DistSum(G, s, NodeSet(G) \ {s}) IN
            /\ s \in DOMAIN result <=> (Component(G, s) = NodeSet(G) /\ D > 0)
            /\ s \in DOMAIN result => result[s] = Score(G, D, normalized)

\* Two connected components, one of 2 nodes and one of 3.
TwoThree(g) ==
    /\ Len(g.nodes) = 5
    /\ {Cardinality(Component(g, s)) : s \in NodeSet(g)} = {2, 3}

Interior(path) == {path[x] : x \in 2..Len(path) - 1}

IsShortestPath(g, path, s, t, d) ==
    /\ Len(path) = d + 1
    /\ path[1] = s
    /\ path[Len(path)] = t
    /\ \A x \in 1..Len(path) - 1 : has_edge(g, path[x], path[x + 1])

\* The hop distances of all ordered pairs.
DistTable(g) ==
    [pr \in NodeSet(g) \X NodeSet(g) |-> shortest_path_length(g, pr[1], pr[2])]

PathGraph5 == erdos_renyi_graph(5, {{0, 1}, {1, 2}, {2, 3}, {3, 4}})

C8_DegreeSum ==
    (Called("degree") /\ ~normalized) =>
        /\ DOMAIN result = NodeSet(G)
        /\ \A v \in NodeSet(G) : result[v] = <<Cardinality(NbrSet(G, v)), 1>>
        /\ SumOver([v \in NodeSet(G) |-> result[v][1]], NodeSet(G))
               = 2 * Cardinality(EdgeSet(G))

C8_Witness ==
    /\ Called("degree")
    /\ ~normalized
    /\ Len(G.nodes) = 4
    /\ Cardinality(EdgeSet(G)) = 3
    /\ \E v \in NodeSet(G) : result[v] = <<0, 1>>
====
